---- MODULE Spec2Model ----
(***************************************************************************)
(* A model of the Exchange synchronisation engine                          *)
(* (src/src/classes/exchange.ts): setPolicy, run with its two concurrent   *)
(* provider reads, the two forEach loops that dispatch the target writes,  *)
(* and the target provider the writes act on.                              *)
(*                                                                         *)
(* JavaScript runs every synchronous stretch of code atomically, so there  *)
(* is one action per stretch: the start of run up to its await, each       *)
(* read's then-callback, the rest of run after the await, and the          *)
(* continuation of each forEach callback after its awaited write.          *)
(***************************************************************************)
EXTENDS Integers, Sequences, FiniteSets, TLC

\* ---------------------------------------------------------------- bounds
MaxKey == 2
MaxLen == 2
MaxRuns == 2
MaxPolicyCalls == 1
MaxPolicySeq == 3
MaxSubs == 2
MaxUnsubs == 2

Keys == 1..MaxKey
Runs == 1..MaxRuns
Sides == {"source", "target"}
Kinds == {"create", "update", "delete"}
ActionType == {"do", "skip", "info"}

\* Record names: every source record carries the name 1; a target record
\* carries 1 (equal to its source record) or 2 (differs from it).
SourceNames == {1}
TargetNames == {1, 2}
SourceRecords == [id : Keys, name : SourceNames]
TargetRecords == [id : Keys, name : TargetNames]

SeqsUpTo(S, n) == UNION {[1..m -> S] : m \in 0..n}

\* The setPolicy arguments tried: Partial<ExchangePolicyType> values, a
\* function from the kinds the call specifies to their action type.
PolicyInputs ==
  { [k \in Kinds |-> "do"],
    [k \in {"create", "delete"} |-> "do"],
    [k \in {"update"} |-> "skip"],
    [k \in {"create", "delete"} |-> "skip"] }

\* The emitter's event names, and the identities of the handler functions
\* the subscribers pass.
EventNames ==
  {"runBefore", "runAfter", "sourceDataReady", "targetDataReady",
   "itemCreated", "itemUpdated", "itemDeleted"}
Fns == {1, 2}

\* The subscribe arguments tried: Partial<EventSubscriberType> objects, a
\* function from the event names the object has a handler for to the handler.
SubscriberInputs ==
  { [e \in {"runBefore"} |-> 1],
    [e \in {"runBefore", "runAfter"} |-> 1],
    [e \in {"runAfter"} |-> 2] }

\* Every Partial<ExchangePolicyType> value.
PartialPolicies == UNION {[ks -> ActionType] : ks \in SUBSET Kinds}

VARIABLES
  sourceStore,   \* the source provider's records (MockAdapter.data)
  targetStore,   \* the target provider's records (MockAdapter.data)
  policy,        \* Exchange.policy
  policyCalls,   \* number of setPolicy calls made
  sourceData,    \* Exchange.sourceData, a Map in insertion order
  targetData,    \* Exchange.targetData, a Map in insertion order
  pc,            \* per invocation of run: idle, reading, done, failed
  readSt,        \* per invocation and side: state of sourcePromise/targetPromise
  readData,      \* per invocation and side: the array the read resolved with
  readErr,       \* per invocation and side: rejection reason of the promise
  runError,      \* per invocation: the reason Promise.all (and so run) rejected with
  events,        \* every emitter.emit call, in order
  calls,         \* every target create/update/delete call, in order, with its state
  decisions,     \* every getUpdateData call
  passPolicy,    \* per invocation: the policy its two loops read
  readsAt,       \* per invocation: number of emits made when it called the two reads
  listeners,     \* the emitter: per event name, the registered listeners in order
  subs,          \* the subscriber object of each subscribe call, in order
  unsubCalls,    \* per subscribe call: how often its unsubscribe was invoked
  delivered,     \* every listener invocation made by emit, in order
  policyLog      \* the argument of every setPolicy call, in order

vars == <<sourceStore, targetStore, policy, policyCalls, sourceData, targetData,
          pc, readSt, readData, readErr, runError, events, calls, decisions,
          passPolicy,
          readsAt,
          listeners,
          subs,
          unsubCalls,
          delivered,
          policyLog>>

\* ------------------------------------------------------------ data types
NoKey == 0
NoError == [kind |-> "none", key |-> NoKey]
\* new Error(`Duplicate key "${key}" found in data.`): the message carries the key only
DuplicateKeyError(key) == [kind |-> "DuplicateKey", key |-> key]
\* the reason a provider's read() rejected with
ReadError(side) ==
  [kind |-> IF side = "source" THEN "SourceReadError" ELSE "TargetReadError",
   key |-> NoKey]

\* getUpdateData returns false when no update is needed
NoUpdate == [id |-> NoKey, name |-> 0]

Event(name, r, key) == [name |-> name, run |-> r, key |-> key]
Call(r, kind, data) ==
  [run |-> r, kind |-> kind, id |-> data.id, name |-> data.name, st |-> "pending"]

\* ------------------------------------------------- eventemitter3
\* emitter.on(event, fn) appends a listener; sub records the subscribe call
\* that registered it.
on(ls, fn, sub) == Append(ls, [fn |-> fn, sub |-> sub])
\* emitter.off(event, fn) keeps the listeners whose function is not fn.
off(ls, fn) == SelectSeq(ls, LAMBDA l : l.fn # fn)
\* emitter.emit(event, ...) calls every listener of the event, in order.
Deliver(e) ==
  [i \in 1..Len(listeners[e.name]) |->
     [fn |-> listeners[e.name][i].fn, sub |-> listeners[e.name][i].sub, event |-> e]]
Emit(e) ==
  /\ events' = Append(events, e)
  /\ delivered' = delivered \o Deliver(e)

\* --------------------------------------------------- Map<string, U>
MapKeys(m) == {m[i].key : i \in 1..Len(m)}
MapHas(m, key) == key \in MapKeys(m)
MapGet(m, key) == m[CHOOSE i \in 1..Len(m) : m[i].key = key].item
MapSet(m, key, item) ==
  IF MapHas(m, key)
    THEN [i \in 1..Len(m) |-> IF m[i].key = key THEN [key |-> key, item |-> item] ELSE m[i]]
    ELSE Append(m, [key |-> key, item |-> item])

\* --------------------------------------------- the integrator's strategies
getSourceKey == [data \in SourceRecords |-> data.id]
getTargetKey == [data \in TargetRecords |-> data.id]
convertSourceToTarget(source) == [id |-> source.id, name |-> source.name]
getUpdateData(source, target) ==
  IF source.name = target.name THEN NoUpdate
  ELSE [id |-> source.id, name |-> source.name]

\* ------------------------------------------------------------- putTo
\* data.forEach: insert each item under its key; throw on a key the map
\* already has, leaving the items inserted so far in the map.
RECURSIVE putToNoCheck(_, _, _)
putToNoCheck(target, data, getKey) ==
  IF data = <<>> THEN [map |-> target, error |-> NoError]
  ELSE putToNoCheck(MapSet(target, getKey[Head(data)], Head(data)), Tail(data), getKey)

RECURSIVE putToFirstKey(_, _, _)
putToFirstKey(target, data, getKey) ==
  IF data = <<>> THEN [map |-> target, error |-> NoError]
  ELSE LET key == getKey[Head(data)] IN
       IF MapHas(target, key)
         THEN [map |-> target,
               error |-> DuplicateKeyError(IF target = <<>> THEN key ELSE target[1].key)]
         ELSE putToFirstKey(MapSet(target, key, Head(data)), Tail(data), getKey)

RECURSIVE putTo(_, _, _)
putTo(target, data, getKey) ==
  IF data = <<>> THEN [map |-> target, error |-> NoError]
  ELSE LET key == getKey[Head(data)] IN
       IF MapHas(target, key)
         THEN [map |-> target, error |-> DuplicateKeyError(key)]
         ELSE putTo(MapSet(target, key, Head(data)), Tail(data), getKey)

\* ------------------------------------------------------- the provider
\* MockAdapter: create pushes, update merges into the first record with the
\* id, delete filters the records with the id out.
StoreIndex(store, id) ==
  IF \E i \in 1..Len(store) : store[i].id = id
    THEN CHOOSE i \in 1..Len(store) :
           store[i].id = id /\ \A j \in 1..(i - 1) : store[j].id # id
    ELSE 0

ApplyWrite(store, c) ==
  CASE c.kind = "create" -> Append(store, [id |-> c.id, name |-> c.name])
    [] c.kind = "update" ->
         IF StoreIndex(store, c.id) = 0 THEN store
         ELSE [store EXCEPT ![StoreIndex(store, c.id)] = [id |-> c.id, name |-> c.name]]
    [] c.kind = "delete" -> SelectSeq(store, LAMBDA x : x.id # c.id)

\* ------------------------------------------------------------ setPolicy
ReplacePolicy(old, p) == [k \in Kinds |-> IF k \in DOMAIN p THEN p[k] ELSE "info"]

MergePolicy(old, p) == [k \in Kinds |-> IF k \in DOMAIN p THEN p[k] ELSE old[k]]

SetPolicyUpTo(p, max) ==
  /\ policyCalls < max
  /\ policy' = MergePolicy(policy, p)
  /\ policyCalls' = policyCalls + 1
  /\ policyLog' = Append(policyLog, p)
  /\ UNCHANGED <<sourceStore, targetStore, sourceData, targetData, pc, readSt,
                 readData, readErr, runError, events, calls, decisions, passPolicy,
                 readsAt, listeners, subs, unsubCalls, delivered>>

SetPolicy(p) == SetPolicyUpTo(p, MaxPolicyCalls)

\* ------------------------------------------------------------ subscribe
\* subscribe(subscriber): register each handler of the object.
Subscribe(subscriber) ==
  /\ Len(subs) < MaxSubs
  /\ subs' = Append(subs, subscriber)
  /\ unsubCalls' = Append(unsubCalls, 0)
  /\ listeners' = [e \in EventNames |->
                     IF e \in DOMAIN subscriber
                       THEN on(listeners[e], subscriber[e], Len(subs) + 1)
                       ELSE listeners[e]]
  /\ UNCHANGED <<sourceStore, targetStore, policy, policyCalls, sourceData,
                 targetData, pc, readSt, readData, readErr, runError, events,
                 calls, decisions, passPolicy, readsAt, delivered, policyLog>>

\* The function subscribe call k returned: off for each handler of its object.
Unsubscribe(k) ==
  /\ unsubCalls[k] < MaxUnsubs
  /\ unsubCalls' = [unsubCalls EXCEPT ![k] = @ + 1]
  /\ listeners' = [e \in EventNames |->
                     IF e \in DOMAIN subs[k]
                       THEN off(listeners[e], subs[k][e])
                       ELSE listeners[e]]
  /\ UNCHANGED <<sourceStore, targetStore, policy, policyCalls, sourceData,
                 targetData, pc, readSt, readData, readErr, runError, events,
                 calls, decisions, passPolicy, readsAt, subs, delivered, policyLog>>

\* ------------------------------------------------------------------ run
\* run up to `await Promise.all`: emit runBefore, call both reads.
RunStart(r) ==
  /\ pc[r] = "idle"
  /\ \A q \in Runs : q < r => pc[q] # "idle"
  /\ Emit(Event("runBefore", r, NoKey))
  /\ readSt' = [readSt EXCEPT ![r] = [s \in Sides |-> "pending"]]
  /\ readsAt' = [readsAt EXCEPT ![r] = Len(events')]
  /\ pc' = [pc EXCEPT ![r] = "reading"]
  /\ UNCHANGED <<sourceStore, targetStore, policy, policyCalls, sourceData,
                 targetData, readData, readErr, runError, calls, decisions, passPolicy,
                 listeners, subs, unsubCalls, policyLog>>

\* A rejection of sourcePromise or targetPromise: Promise.all rejects with
\* the first one.
FirstReason(r, err) == IF runError[r] = NoError THEN err ELSE runError[r]

\* sourceAdapter.read() resolved: the then-callback of line 43. It runs
\* whether or not run has already rejected on the other side's failure.
SourceReadResolve(r) ==
  /\ readSt[r].source = "pending"
  /\ LET res == putTo(sourceData, sourceStore, getSourceKey) IN
       /\ sourceData' = res.map
       /\ readData' = [readData EXCEPT ![r].source = sourceStore]
       /\ IF res.error = NoError
            THEN /\ Emit(Event("sourceDataReady", r, NoKey))
                 /\ readSt' = [readSt EXCEPT ![r].source = "fulfilled"]
                 /\ UNCHANGED <<readErr, runError>>
            ELSE /\ readSt' = [readSt EXCEPT ![r].source = "rejected"]
                 /\ readErr' = [readErr EXCEPT ![r].source = res.error]
                 /\ runError' = [runError EXCEPT ![r] = FirstReason(r, res.error)]
                 /\ UNCHANGED <<events, delivered>>
  /\ UNCHANGED <<sourceStore, targetStore, policy, policyCalls, targetData, pc,
                 calls, decisions, passPolicy, readsAt, listeners, subs,
                 unsubCalls, policyLog>>

\* sourceAdapter.read() rejected: the then-callback never runs.
SourceReadReject(r) ==
  /\ readSt[r].source = "pending"
  /\ readSt' = [readSt EXCEPT ![r].source = "rejected"]
  /\ readErr' = [readErr EXCEPT ![r].source = ReadError("source")]
  /\ runError' = [runError EXCEPT ![r] = FirstReason(r, ReadError("source"))]
  /\ UNCHANGED <<sourceStore, targetStore, policy, policyCalls, sourceData,
                 targetData, pc, readData, events, calls, decisions, passPolicy,
                 readsAt, listeners, subs, unsubCalls, delivered, policyLog>>

\* targetAdapter.read() resolved, with the records the provider holds at
\* that moment: the then-callback of line 48.
TargetReadResolve(r) ==
  /\ readSt[r].target = "pending"
  /\ LET res == putTo(targetData, targetStore, getTargetKey) IN
       /\ targetData' = res.map
       /\ readData' = [readData EXCEPT ![r].target = targetStore]
       /\ IF res.error = NoError
            THEN /\ Emit(Event("targetDataReady", r, NoKey))
                 /\ readSt' = [readSt EXCEPT ![r].target = "fulfilled"]
                 /\ UNCHANGED <<readErr, runError>>
            ELSE /\ readSt' = [readSt EXCEPT ![r].target = "rejected"]
                 /\ readErr' = [readErr EXCEPT ![r].target = res.error]
                 /\ runError' = [runError EXCEPT ![r] = FirstReason(r, res.error)]
                 /\ UNCHANGED <<events, delivered>>
  /\ UNCHANGED <<sourceStore, targetStore, policy, policyCalls, sourceData, pc,
                 calls, decisions, passPolicy, readsAt, listeners, subs,
                 unsubCalls, policyLog>>

\* targetAdapter.read() rejected.
TargetReadReject(r) ==
  /\ readSt[r].target = "pending"
  /\ readSt' = [readSt EXCEPT ![r].target = "rejected"]
  /\ readErr' = [readErr EXCEPT ![r].target = ReadError("target")]
  /\ runError' = [runError EXCEPT ![r] = FirstReason(r, ReadError("target"))]
  /\ UNCHANGED <<sourceStore, targetStore, policy, policyCalls, sourceData,
                 targetData, pc, readData, events, calls, decisions, passPolicy,
                 readsAt, listeners, subs, unsubCalls, delivered, policyLog>>

\* Promise.all([sourcePromise, targetPromise])
PromiseAllSettled(st) ==
  IF \A s \in Sides : st[s] \in {"fulfilled", "rejected"} THEN "fulfilled" ELSE "pending"

PromiseAny(st) ==
  IF \E s \in Sides : st[s] = "rejected" THEN "rejected"
  ELSE IF \E s \in Sides : st[s] = "fulfilled" THEN "fulfilled"
  ELSE "pending"

PromiseAll(st) ==
  IF \E s \in Sides : st[s] = "rejected" THEN "rejected"
  ELSE IF \A s \in Sides : st[s] = "fulfilled" THEN "fulfilled"
  ELSE "pending"

\* The await throws: run rejects with Promise.all's reason.
RunReject(r) ==
  /\ pc[r] = "reading"
  /\ PromiseAll(readSt[r]) = "rejected"
  /\ pc' = [pc EXCEPT ![r] = "failed"]
  /\ UNCHANGED <<sourceStore, targetStore, policy, policyCalls, sourceData,
                 targetData, readSt, readData, readErr, runError, events, calls,
                 decisions, passPolicy, readsAt, listeners, subs, unsubCalls,
                 delivered, policyLog>>

\* One callback of sourceData.forEach, up to its await: the write it calls.
SourceItemCallsUnlessSkip(r, e) ==
  IF ~MapHas(targetData, e.key)
    THEN IF policy.create # "skip"
           THEN <<Call(r, "create", convertSourceToTarget(e.item))>>
           ELSE <<>>
    ELSE LET updateData == getUpdateData(e.item, MapGet(targetData, e.key)) IN
         IF updateData # NoUpdate /\ policy.update # "skip"
           THEN <<Call(r, "update", updateData)>>
           ELSE <<>>

SourceItemCallsNoSentinel(r, e) ==
  IF ~MapHas(targetData, e.key)
    THEN IF policy.create = "do"
           THEN <<Call(r, "create", convertSourceToTarget(e.item))>>
           ELSE <<>>
    ELSE LET updateData == getUpdateData(e.item, MapGet(targetData, e.key)) IN
         IF policy.update = "do"
           THEN <<Call(r, "update", updateData)>>
           ELSE <<>>

SourceItemCalls(r, e) ==
  IF ~MapHas(targetData, e.key)
    THEN IF policy.create = "do"
           THEN <<Call(r, "create", convertSourceToTarget(e.item))>>
           ELSE <<>>
    ELSE LET updateData == getUpdateData(e.item, MapGet(targetData, e.key)) IN
         IF updateData # NoUpdate /\ policy.update = "do"
           THEN <<Call(r, "update", updateData)>>
           ELSE <<>>

\* One callback of targetData.forEach, up to its await.
TargetItemCallsUnlessInfo(r, e) ==
  IF ~MapHas(sourceData, e.key) /\ policy.delete # "info"
    THEN <<Call(r, "delete", e.item)>>
    ELSE <<>>

TargetItemCalls(r, e) ==
  IF ~MapHas(sourceData, e.key) /\ policy.delete = "do"
    THEN <<Call(r, "delete", e.item)>>
    ELSE <<>>

RECURSIVE SourceCalls(_, _)
SourceCalls(r, m) ==
  IF m = <<>> THEN <<>> ELSE SourceItemCalls(r, Head(m)) \o SourceCalls(r, Tail(m))

RECURSIVE TargetCalls(_, _)
TargetCalls(r, m) ==
  IF m = <<>> THEN <<>> ELSE TargetItemCalls(r, Head(m)) \o TargetCalls(r, Tail(m))

\* The writes the two loops call, in order.
PassCalls(r) == SourceCalls(r, sourceData) \o TargetCalls(r, targetData)

\* The getUpdateData calls of the first loop.
PassDecisions(r) ==
  {[run |-> r, source |-> sourceData[i].item,
    target |-> MapGet(targetData, sourceData[i].key)] :
     i \in {j \in 1..Len(sourceData) : MapHas(targetData, sourceData[j].key)}}

\* The loops' callbacks are async functions: a write that throws when it is
\* called (thrown) rejects its own callback's promise and nothing else.
DispatchUntilThrow(new, thrown) ==
  LET stop == IF thrown = {} THEN Len(new)
              ELSE CHOOSE i \in thrown : \A j \in thrown : i <= j
  IN [i \in 1..stop |-> IF i \in thrown THEN [new[i] EXCEPT !.st = "rejected"] ELSE new[i]]

Dispatch(new, thrown) ==
  [i \in 1..Len(new) |-> IF i \in thrown THEN [new[i] EXCEPT !.st = "rejected"] ELSE new[i]]

\* run after the await: both loops, then runAfter; run's promise resolves.
RunAct(r) ==
  /\ pc[r] = "reading"
  /\ PromiseAll(readSt[r]) = "fulfilled"
  /\ \E thrown \in SUBSET (1..Len(PassCalls(r))) :
       calls' = calls \o Dispatch(PassCalls(r), thrown)
  /\ decisions' = decisions \cup PassDecisions(r)
  /\ Emit(Event("runAfter", r, NoKey))
  /\ pc' = [pc EXCEPT ![r] = "done"]
  /\ passPolicy' = [passPolicy EXCEPT ![r] = policy]
  /\ UNCHANGED <<sourceStore, targetStore, policy, policyCalls, sourceData,
                 targetData, readSt, readData, readErr, runError, readsAt,
                 listeners, subs, unsubCalls, policyLog>>

ItemEventShifted(kind) ==
  CASE kind = "create" -> "itemUpdated"
    [] kind = "update" -> "itemDeleted"
    [] kind = "delete" -> "itemCreated"

ItemEvent(kind) ==
  CASE kind = "create" -> "itemCreated"
    [] kind = "update" -> "itemUpdated"
    [] kind = "delete" -> "itemDeleted"

\* A pending write succeeds: the provider applies it, the callback resumes
\* after its await and emits the item event.
WriteResolve(i) ==
  /\ calls[i].st = "pending"
  /\ targetStore' = ApplyWrite(targetStore, calls[i])
  /\ calls' = [calls EXCEPT ![i].st = "fulfilled"]
  /\ Emit(Event(ItemEvent(calls[i].kind), calls[i].run, calls[i].id))
  /\ UNCHANGED <<sourceStore, policy, policyCalls, sourceData, targetData, pc,
                 readSt, readData, readErr, runError, decisions, passPolicy,
                 readsAt, listeners, subs, unsubCalls, policyLog>>

\* A pending write fails: the await throws inside the callback, whose
\* promise nobody holds.
WriteReject(i) ==
  /\ calls[i].st = "pending"
  /\ calls' = [calls EXCEPT ![i].st = "rejected"]
  /\ UNCHANGED <<sourceStore, targetStore, policy, policyCalls, sourceData,
                 targetData, pc, readSt, readData, readErr, runError, events,
                 decisions, passPolicy, readsAt, listeners, subs, unsubCalls,
                 delivered, policyLog>>

\* ------------------------------------------------------- specification
Init ==
  /\ sourceStore \in SeqsUpTo(SourceRecords, MaxLen)
  /\ targetStore \in SeqsUpTo(TargetRecords, MaxLen)
  /\ policy = [k \in Kinds |-> "info"]
  /\ policyCalls = 0
  /\ sourceData = <<>>
  /\ targetData = <<>>
  /\ pc = [r \in Runs |-> "idle"]
  /\ readSt = [r \in Runs |-> [s \in Sides |-> "none"]]
  /\ readData = [r \in Runs |-> [s \in Sides |-> <<>>]]
  /\ readErr = [r \in Runs |-> [s \in Sides |-> NoError]]
  /\ runError = [r \in Runs |-> NoError]
  /\ events = <<>>
  /\ calls = <<>>
  /\ decisions = {}
  /\ passPolicy = [r \in Runs |-> [k \in Kinds |-> "info"]]
  /\ readsAt = [r \in Runs |-> 0]
  /\ listeners = [e \in EventNames |-> <<>>]
  /\ subs = <<>>
  /\ unsubCalls = <<>>
  /\ delivered = <<>>
  /\ policyLog = <<>>

Next ==
  \/ \E p \in PolicyInputs : SetPolicy(p)
  \/ \E r \in Runs : RunStart(r)
  \/ \E r \in Runs : SourceReadResolve(r)
  \/ \E r \in Runs : SourceReadReject(r)
  \/ \E r \in Runs : TargetReadResolve(r)
  \/ \E r \in Runs : TargetReadReject(r)
  \/ \E r \in Runs : RunReject(r)
  \/ \E r \in Runs : RunAct(r)
  \/ \E i \in 1..Len(calls) : WriteResolve(i)
  \/ \E i \in 1..Len(calls) : WriteReject(i)

Spec == Init /\ [][Next]_vars

\* The engine's configuration: sequences of setPolicy calls with any argument.
InitPolicy ==
  /\ Init
  /\ sourceStore = <<>>
  /\ targetStore = <<>>

NextPolicy == \E p \in PartialPolicies : SetPolicyUpTo(p, MaxPolicySeq)

SpecPolicy == InitPolicy /\ [][NextPolicy]_vars

\* The engine with subscribers, under the default policy (which calls no
\* write): the subscribe and unsubscribe calls interleaved with the runs.
InitSub ==
  /\ Init
  /\ sourceStore = <<[id |-> 1, name |-> 1]>>
  /\ targetStore = <<>>

NextSub ==
  \/ \E subscriber \in SubscriberInputs : Subscribe(subscriber)
  \/ \E k \in 1..Len(subs) : Unsubscribe(k)
  \/ \E r \in Runs : RunStart(r)
  \/ \E r \in Runs : SourceReadResolve(r)
  \/ \E r \in Runs : SourceReadReject(r)
  \/ \E r \in Runs : TargetReadResolve(r)
  \/ \E r \in Runs : TargetReadReject(r)
  \/ \E r \in Runs : RunReject(r)
  \/ \E r \in Runs : RunAct(r)

SpecSub == InitSub /\ [][NextSub]_vars

\* ------------------------------------------------------------ vocabulary
AllDo == [k \in Kinds |-> "do"]
Other(s) == IF s = "source" THEN "target" ELSE "source"
Ids(data) == {data[i].id : i \in 1..Len(data)}
Range(data) == {data[i] : i \in 1..Len(data)}
UniqueKeys(data) == \A i, j \in 1..Len(data) : i # j => data[i].id # data[j].id
CallsOf(r) == {i \in 1..Len(calls) : calls[i].run = r}
CallsOfKind(r, kind) == {i \in CallsOf(r) : calls[i].kind = kind}
CallData(i) == [id |-> calls[i].id, name |-> calls[i].name]
Emitted(name, r) == \E i \in 1..Len(events) : events[i].name = name /\ events[i].run = r
EventIndex(name, r) ==
  CHOOSE i \in 1..Len(events) : events[i].name = name /\ events[i].run = r
\* run r was invoked after run q had returned
StartedAfterDone(r, q) ==
  /\ Emitted("runAfter", q)
  /\ Emitted("runBefore", r)
  /\ EventIndex("runAfter", q) < EventIndex("runBefore", r)
\* every write of run q had succeeded before run r was invoked
WritesAppliedBefore(q, r) ==
  \A i \in CallsOf(q) :
    /\ calls[i].st = "fulfilled"
    /\ \E e \in 1..Len(events) :
         /\ events[e] = Event(ItemEvent(calls[i].kind), q, calls[i].id)
         /\ e < EventIndex("runBefore", r)
\* the step of run r from its await to its return
RunActStep(r) == pc[r] = "reading" /\ pc'[r] = "done"

\* ---------------------------------------------------------------- claims

\* C1: join barrier. Once runAfter of a pass has been emitted (and run has
\* returned), no create/update/delete write of that pass is still pending.
C1_JoinBarrier ==
  \A r \in Runs :
    (Emitted("runAfter", r) \/ pc[r] = "done") =>
      \A i \in CallsOf(r) : calls[i].st # "pending"

\* C2: diff correctness. A pass that read the duplicate-free arrays S and T
\* and ran with policy 'do' for all kinds called create for exactly the
\* records of S whose key is not in T, delete for exactly the records of T
\* whose key is not in S, getUpdateData for exactly the pairs with equal
\* keys, and update for exactly the pairs it returned a payload for. (Stated
\* for the passes invoked after every earlier pass has returned.)
C2_DiffCorrect ==
  \A r \in Runs :
    LET S == readData[r].source
        T == readData[r].target
        matched == {p \in Range(S) \X Range(T) : p[1].id = p[2].id}
    IN (pc[r] = "done" /\ passPolicy[r] = AllDo /\ UniqueKeys(S) /\ UniqueKeys(T)
          /\ \A q \in Runs : q < r => StartedAfterDone(r, q)) =>
         /\ {CallData(i) : i \in CallsOfKind(r, "create")}
              = {convertSourceToTarget(s) : s \in {x \in Range(S) : x.id \notin Ids(T)}}
         /\ Cardinality(CallsOfKind(r, "create"))
              = Cardinality({x \in Range(S) : x.id \notin Ids(T)})
         /\ {CallData(i) : i \in CallsOfKind(r, "delete")}
              = {x \in Range(T) : x.id \notin Ids(S)}
         /\ Cardinality(CallsOfKind(r, "delete"))
              = Cardinality({x \in Range(T) : x.id \notin Ids(S)})
         /\ {d \in decisions : d.run = r}
              = {[run |-> r, source |-> p[1], target |-> p[2]] : p \in matched}
         /\ {CallData(i) : i \in CallsOfKind(r, "update")}
              = {getUpdateData(p[1], p[2]) : p \in matched} \ {NoUpdate}
         /\ Cardinality(CallsOfKind(r, "update"))
              = Cardinality({p \in matched : getUpdateData(p[1], p[2]) # NoUpdate})

\* C3: mirror result. When a run under policy 'do' for all kinds returns, and
\* no write of the target provider has failed, the target's key set equals
\* the source's key set.
C3_MirrorOnReturn ==
  [][\A r \in Runs :
       (RunActStep(r) /\ policy = AllDo
          /\ \A i \in 1..Len(calls') : calls'[i].st # "rejected")
         => Ids(targetStore') = Ids(sourceStore)]_vars

\* C4: repeated runs are independent. A run invoked after the earlier runs
\* have returned, and with no later run invoked yet, rejects with the duplicate-key error only if the array one
\* of its reads resolved with holds two records with the same key.
C4_RepeatedRunsIndependent ==
  \A r \in Runs :
    ((\A q \in Runs : q < r => StartedAfterDone(r, q))
       /\ (\A q \in Runs : q > r => pc[q] = "idle")
       /\ runError[r].kind = "DuplicateKey")
      => \E s \in Sides : readSt[r][s] = "rejected" /\ ~UniqueKeys(readData[r][s])

\* C5: idempotence. A second pass invoked after the first has returned and
\* all its writes have succeeded, both under policy 'do' for all kinds,
\* calls no create, update or delete.
C5_Idempotent ==
  \A q, r \in Runs :
    (q < r /\ StartedAfterDone(r, q) /\ WritesAppliedBefore(q, r)
       /\ pc[r] = "done" /\ passPolicy[q] = AllDo /\ passPolicy[r] = AllDo)
      => CallsOf(r) = {}

\* the engine's keyed collection of a side
Collection(s) == IF s = "source" THEN sourceData ELSE targetData
\* the side an error value names, if it names one
ErrorSide(err) == IF "side" \in DOMAIN err THEN err.side ELSE "unnamed"
ReadSettled(r, s) == readSt[r][s] \in {"fulfilled", "rejected"}

\* C6 as claimed: when the array a read resolved with holds two records with
\* the same key, run never returns normally, rejects with the duplicate-key
\* error, calls no target write in that pass and emits no runAfter.
C6_DuplicateFatalAsClaimed ==
  \A r \in Runs, s \in Sides :
    (ReadSettled(r, s) /\ ~UniqueKeys(readData[r][s])) =>
      /\ pc[r] # "done"
      /\ pc[r] = "failed" => runError[r].kind = "DuplicateKey"
      /\ CallsOf(r) = {}
      /\ ~Emitted("runAfter", r)

\* C6 as amended: as above, but run rejects with the duplicate-key error of
\* that side or, when the other side's promise had rejected first, with the
\* other side's rejection reason.
C6_DuplicateFatal ==
  \A r \in Runs, s \in Sides :
    (ReadSettled(r, s) /\ ~UniqueKeys(readData[r][s])) =>
      /\ readSt[r][s] = "rejected"
      /\ readErr[r][s].kind = "DuplicateKey"
      /\ pc[r] # "done"
      /\ pc[r] = "failed" =>
           \/ runError[r] = readErr[r][s]
           \/ readSt[r][Other(s)] = "rejected" /\ runError[r] = readErr[r][Other(s)]
      /\ CallsOf(r) = {}
      /\ {d \in decisions : d.run = r} = {}
      /\ ~Emitted("runAfter", r)

C6_Witness ==
  \E r \in Runs, s \in Sides :
    /\ ~UniqueKeys(readData[r][s])
    /\ readSt[r][Other(s)] = "fulfilled"
    /\ pc[r] = "failed"
    /\ runError[r].kind = "DuplicateKey"
    /\ policy = AllDo

\* C7 as claimed: the duplicate-key error names the side it occurred on.
C7_ErrorNamesKeyAndSide ==
  \A r \in Runs, s \in Sides :
    readErr[r][s].kind = "DuplicateKey" => ErrorSide(readErr[r][s]) = s

\* C7 as amended: the duplicate-key error raised while a read's array is put
\* into the keyed collection names the key of the first record of the array
\* whose key the collection already held or an earlier record of the array
\* had; it does not name the side.
C7_ErrorNamesKey ==
  [][\A r \in Runs, s \in Sides :
       (readSt[r][s] = "pending" /\ readErr'[r][s].kind = "DuplicateKey") =>
         LET data == readData'[r][s]
             held == MapKeys(Collection(s))
             Collides(i) ==
               data[i].id \in held \/ \E j \in 1..(i - 1) : data[j].id = data[i].id
         IN /\ \E i \in 1..Len(data) :
                 /\ Collides(i)
                 /\ \A j \in 1..(i - 1) : ~Collides(j)
                 /\ readErr'[r][s].key = data[i].id
            /\ ErrorSide(readErr'[r][s]) = "unnamed"
            /\ runError[r] = NoError => runError'[r] = readErr'[r][s]]_vars

C7_Witness ==
  \E r \in Runs, s \in Sides :
    /\ readErr[r][s].kind = "DuplicateKey"
    /\ pc[r] = "failed"
    /\ runError[r] = readErr[r][s]
    /\ runError[r].key \in Ids(readData[r][s])

\* C8 as claimed: when a provider read fails, run never returns normally,
\* rejects with that read's failure, consults no update decision, calls no
\* target write and emits no runAfter in that pass.
C8_ReadFailureAbortsAsClaimed ==
  \A r \in Runs, s \in Sides :
    readErr[r][s] = ReadError(s) =>
      /\ pc[r] # "done"
      /\ pc[r] = "failed" => runError[r] = ReadError(s)
      /\ CallsOf(r) = {}
      /\ {d \in decisions : d.run = r} = {}
      /\ ~Emitted("runAfter", r)

\* C8 as amended: as above, but run rejects with that read's failure or,
\* when the other side's promise had rejected first, with the other side's
\* rejection reason.
C8_ReadFailureAborts ==
  \A r \in Runs, s \in Sides :
    readErr[r][s] = ReadError(s) =>
      /\ pc[r] # "done"
      /\ pc[r] = "failed" =>
           \/ runError[r] = ReadError(s)
           \/ readSt[r][Other(s)] = "rejected" /\ runError[r] = readErr[r][Other(s)]
      /\ CallsOf(r) = {}
      /\ {d \in decisions : d.run = r} = {}
      /\ ~Emitted("runAfter", r)

C8_Witness ==
  \E r \in Runs, s \in Sides :
    /\ readErr[r][s] = ReadError(s)
    /\ readSt[r][Other(s)] = "fulfilled"
    /\ pc[r] = "failed"
    /\ runError[r] = ReadError(s)
    /\ policy = AllDo

\* C9: write failures are isolated. The step of run after its await calls
\* the target write of every entry its policy gates in (a create for each
\* key only the source collection holds, an update for each matched key with
\* a payload, a delete for each key only the target collection holds), also
\* when some of these calls throw, and emits runAfter.
C9_WriteFailuresIsolated ==
  [][\A r \in Runs :
       RunActStep(r) =>
         LET new == SubSeq(calls', Len(calls) + 1, Len(calls'))
             Attempted(kind) == {i \in 1..Len(new) : new[i].kind = kind}
             both == MapKeys(sourceData) \cap MapKeys(targetData)
             creates == IF policy.create = "do"
                          THEN MapKeys(sourceData) \ MapKeys(targetData) ELSE {}
             updates == IF policy.update = "do"
                          THEN {k \in both : getUpdateData(MapGet(sourceData, k),
                                                           MapGet(targetData, k)) # NoUpdate}
                          ELSE {}
             deletes == IF policy.delete = "do"
                          THEN MapKeys(targetData) \ MapKeys(sourceData) ELSE {}
         IN /\ {new[i].id : i \in Attempted("create")} = creates
            /\ {new[i].id : i \in Attempted("update")} = updates
            /\ {new[i].id : i \in Attempted("delete")} = deletes
            /\ Len(new) = Cardinality(creates) + Cardinality(updates) + Cardinality(deletes)
            /\ \A i \in 1..Len(new) : new[i].run = r
            /\ events' = Append(events, Event("runAfter", r, NoKey))]_vars

C9_Witness ==
  \E r \in Runs :
    /\ pc[r] = "done"
    /\ Emitted("runAfter", r)
    /\ \E i, j \in CallsOf(r) : i < j /\ calls[i].st = "rejected" /\ calls[j].st = "fulfilled"

\* C10: write failures are reported. A step in which a pending write fails
\* changes something the caller of run can observe: the state of a run, the
\* error a run rejected with, or the events emitted.
C10_WriteFailuresReported ==
  [][\A i \in 1..Len(calls) :
       (calls[i].st = "pending" /\ calls'[i].st = "rejected")
         => <<pc, runError, events>>' # <<pc, runError, events>>]_vars

ItemEventsOf(r, kind) ==
  {i \in 1..Len(events) : events[i].name = ItemEvent(kind) /\ events[i].run = r}

\* C11: policy 'skip'. A pass whose loops read 'skip' for an action kind
\* calls no target write of that kind and emits no item event of that kind.
C11_SkipNoWrites ==
  \A r \in Runs, kind \in Kinds :
    (pc[r] = "done" /\ passPolicy[r][kind] = "skip") =>
      /\ CallsOfKind(r, kind) = {}
      /\ ItemEventsOf(r, kind) = {}

C11_Witness ==
  \E r \in Runs :
    /\ pc[r] = "done"
    /\ passPolicy[r].delete = "skip"
    /\ passPolicy[r].create = "skip"
    /\ Ids(readData[r].target) \ Ids(readData[r].source) # {}
    /\ Ids(readData[r].source) \ Ids(readData[r].target) # {}

\* C12: policy 'info', the default. A pass whose loops read 'info' for an
\* action kind calls no target write of that kind and emits no item event
\* of that kind; with 'info' for all three kinds the pass calls no target
\* write at all.
C12_InfoNoWrites ==
  \A r \in Runs :
    /\ \A kind \in Kinds :
         (pc[r] = "done" /\ passPolicy[r][kind] = "info") =>
           /\ CallsOfKind(r, kind) = {}
           /\ ItemEventsOf(r, kind) = {}
    /\ (pc[r] = "done" /\ \A kind \in Kinds : passPolicy[r][kind] = "info") =>
         CallsOf(r) = {}

C12_Witness ==
  \E r \in Runs :
    /\ pc[r] = "done"
    /\ \A kind \in Kinds : passPolicy[r][kind] = "info"
    /\ Ids(readData[r].source) \ Ids(readData[r].target) # {}
    /\ Ids(readData[r].target) \ Ids(readData[r].source) # {}

EventCount(name, r) ==
  Cardinality({i \in 1..Len(events) : events[i].name = name /\ events[i].run = r})
\* the provider's read of side s resolved for run r (the then-callback ran)
ReadResolved(r, s) ==
  readSt[r][s] = "fulfilled" \/ readErr[r][s].kind = "DuplicateKey"

\* C13: a pass completes when both reads succeed with unique keys. A run
\* invoked after the earlier runs have returned, whose two provider reads
\* have resolved with arrays free of duplicate keys, does not reject, and
\* once it has returned it has emitted runBefore, sourceDataReady,
\* targetDataReady and runAfter exactly once each.
C13_UniquePassCompletes ==
  \A r \in Runs :
    ((\A q \in Runs : q < r => StartedAfterDone(r, q))
       /\ (\A q \in Runs : q > r => pc[q] = "idle")
       /\ (\A s \in Sides : ReadResolved(r, s) /\ UniqueKeys(readData[r][s])))
      => /\ pc[r] # "failed"
         /\ runError[r] = NoError
         /\ pc[r] = "done" =>
              \A name \in {"runBefore", "sourceDataReady", "targetDataReady", "runAfter"} :
                EventCount(name, r) = 1

ReadyEvent(s) == IF s = "source" THEN "sourceDataReady" ELSE "targetDataReady"
\* the step in which run r calls its two reads
ReadsStartStep(r) == readSt[r].source = "none" /\ readSt'[r].source = "pending"
\* a step in which run r consults getUpdateData or calls a target write
DiffStep(r) ==
  \/ \E i \in 1..Len(calls') : i > Len(calls) /\ calls'[i].run = r
  \/ \E d \in decisions' \ decisions : d.run = r
  \/ RunActStep(r)

\* C14: lifecycle ordering. When a run calls its reads it has already
\* emitted runBefore; and when it consults getUpdateData or calls a target
\* write, both reads have been fulfilled, both ready events have been emitted
\* after runBefore, and each keyed collection holds every record its read
\* resolved with. (The two ready events occur in either order: C14_Witness
\* and C14_WitnessSourceFirst.)
C14_LifecycleOrder ==
  [][\A r \in Runs :
       /\ ReadsStartStep(r) =>
            /\ EventCount("runBefore", r)' = 1
            /\ EventIndex("runBefore", r)' <= readsAt'[r]
       /\ DiffStep(r) =>
            \A s \in Sides :
              /\ readSt[r][s] = "fulfilled"
              /\ EventCount(ReadyEvent(s), r) = 1
              /\ EventIndex("runBefore", r) < EventIndex(ReadyEvent(s), r)
              /\ \A i \in 1..Len(readData[r][s]) :
                   /\ MapHas(Collection(s), readData[r][s][i].id)
                   /\ MapGet(Collection(s), readData[r][s][i].id) = readData[r][s][i]
    ]_vars

\* a returned pass with a decision and a write, whose targetDataReady came
\* before its sourceDataReady
C14_Witness ==
  \E r \in Runs :
    /\ pc[r] = "done"
    /\ CallsOf(r) # {}
    /\ \E d \in decisions : d.run = r
    /\ EventIndex("targetDataReady", r) < EventIndex("sourceDataReady", r)

C14_WitnessSourceFirst ==
  \E r \in Runs :
    /\ pc[r] = "done"
    /\ CallsOf(r) # {}
    /\ \E d \in decisions : d.run = r
    /\ EventIndex("sourceDataReady", r) < EventIndex("targetDataReady", r)

DecisionsOf(r) == {d \in decisions : d.run = r}
\* the getUpdateData calls of run r that returned the no-update sentinel
SentinelDecisions(r) ==
  {d \in DecisionsOf(r) : getUpdateData(d.source, d.target) = NoUpdate}

\* C15: no-update sentinel. For a matched pair for which getUpdateData
\* returned the sentinel, the pass makes no update, create or delete call for
\* that key and emits no itemUpdated event for it, whatever the update
\* policy; every update call of a pass carries a payload getUpdateData
\* returned for one of its pairs.
C15_SentinelNoWrite ==
  \A r \in Runs :
    /\ \A d \in SentinelDecisions(r) :
         /\ \A i \in CallsOf(r) : calls[i].id # d.source.id
         /\ \A e \in 1..Len(events) :
              ~(events[e].run = r /\ events[e].key = d.source.id)
    /\ \A i \in CallsOfKind(r, "update") :
         /\ CallData(i) # NoUpdate
         /\ \E d \in DecisionsOf(r) : CallData(i) = getUpdateData(d.source, d.target)

C15_Witness ==
  \E r \in Runs :
    /\ pc[r] = "done"
    /\ passPolicy[r] = AllDo
    /\ SentinelDecisions(r) # {}
    /\ CallsOf(r) # {}

\* the registrations subscribe call k holds among the listeners ls
RegCount(ls, k) == Cardinality({i \in 1..Len(ls) : ls[i].sub = k})
\* a step in which the unsubscribe function of subscribe call k is invoked
UnsubscribeStep(k) == unsubCalls'[k] = unsubCalls[k] + 1
\* the listener invocations of subscribe call k's handlers made by this step
DeliveredTo(k) ==
  {i \in 1..Len(delivered') : i > Len(delivered) /\ delivered'[i].sub = k}

\* C16: unsubscribe is exact. Invoking the unsubscribe function of a
\* subscribe call, once or again, removes the registrations that call made
\* and leaves the registrations of every other subscribe call in place; and
\* each emit invokes, once, the handler of every subscribe call that
\* registered one for the event and has not been unsubscribed.
C16_UnsubscribeExact ==
  [][/\ \A k \in 1..Len(subs) :
          UnsubscribeStep(k) =>
            \A e \in EventNames :
              /\ RegCount(listeners'[e], k) = 0
              /\ \A j \in 1..Len(subs) :
                   j # k => RegCount(listeners'[e], j) = RegCount(listeners[e], j)
     /\ Len(events') > Len(events) =>
          LET ev == events'[Len(events')] IN
          \A j \in 1..Len(subs) :
            (ev.name \in DOMAIN subs[j] /\ unsubCalls[j] = 0) =>
              /\ Cardinality(DeliveredTo(j)) = 1
              /\ \A i \in DeliveredTo(j) : delivered'[i].fn = subs[j][ev.name]
    ]_vars

\* the setPolicy calls that specified kind k
Specifying(k) == {i \in 1..Len(policyLog) : k \in DOMAIN policyLog[i]}
LastSpecifying(k) == CHOOSE i \in Specifying(k) : \A j \in Specifying(k) : j <= i

\* C17: policy configuration is merged. After any sequence of setPolicy
\* calls the policy of each kind is the value given by the last call that
\* specified the kind, and 'info' if no call specified it.
C17_PolicyMerged ==
  \A k \in Kinds :
    policy[k] = IF Specifying(k) = {} THEN "info" ELSE policyLog[LastSpecifying(k)][k]

\* a kind set by one call, omitted by the next call and still in force, and
\* another kind overridden by a later call
C17_Witness ==
  \E k1, k2 \in Kinds :
    /\ Specifying(k1) # {}
    /\ LastSpecifying(k1) < Len(policyLog)
    /\ policy[k1] # "info"
    /\ Cardinality(Specifying(k2)) > 1
    /\ \E i \in Specifying(k2) : policyLog[i][k2] # policy[k2]

ItemEventNames == {"itemCreated", "itemUpdated", "itemDeleted"}
\* the write an item event reports
WriteOfEvent(name) ==
  CASE name = "itemCreated" -> "create"
    [] name = "itemUpdated" -> "update"
    [] name = "itemDeleted" -> "delete"
\* the calls of run r of the kind an event named name reports, for key id
WritesFor(name, r, id) ==
  {i \in CallsOfKind(r, WriteOfEvent(name)) : calls[i].id = id}
ItemEventsFor(name, r, id) ==
  {e \in 1..Len(events) : events[e] = Event(name, r, id)}
ItemEventsMatchWrites ==
  \A name \in ItemEventNames, r \in Runs, id \in Keys \cup {NoKey} :
    Cardinality(ItemEventsFor(name, r, id))
      = Cardinality({i \in WritesFor(name, r, id) : calls[i].st = "fulfilled"})

\* C18: item events follow successful writes. An item event is emitted only
\* in the step in which a write of its kind, pass and key completes
\* successfully; and for each pass, kind and key there are as many item
\* events as successfully completed writes, so a failed write and a write
\* never called have none.
C18_ItemEventsFollowWrites ==
  [][/\ ItemEventsMatchWrites'
     /\ (Len(events') > Len(events) /\ events'[Len(events')].name \in ItemEventNames) =>
          LET ev == events'[Len(events')] IN
          \E i \in WritesFor(ev.name, ev.run, ev.key) :
            calls[i].st = "pending" /\ calls'[i].st = "fulfilled"
    ]_vars

\* a returned pass with a write that succeeded, and so has its item event,
\* and a write that failed
C18_Witness ==
  \E r \in Runs :
    /\ pc[r] = "done"
    /\ \E i, j \in CallsOf(r) :
         /\ calls[i].st = "fulfilled"
         /\ calls[j].st = "rejected"
         /\ \E e \in 1..Len(events) :
              events[e] = Event(ItemEvent(calls[i].kind), r, calls[i].id)

\* run r overlapped no other run
NoOverlap(r) ==
  \A q \in Runs \ {r} :
    pc[q] = "idle" \/ StartedAfterDone(r, q) \/ StartedAfterDone(q, r)

\* the action sets of pass r, as keys: what it called create and delete for,
\* and what it consulted getUpdateData for
CreateKeys(r) == {calls[i].id : i \in CallsOfKind(r, "create")}
DeleteKeys(r) == {calls[i].id : i \in CallsOfKind(r, "delete")}
MatchedKeys(r) == {d.source.id : d \in DecisionsOf(r)}

\* C19: the action sets partition the keys. For a pass that overlapped no
\* other pass, under policy 'do' for create and delete,
\* that read the duplicate-free arrays S and T: the create, matched and
\* delete sets are pairwise disjoint, their union is the set of keys of S
\* and T, with create the keys of S only, matched the keys of both and delete
\* the keys of T only; and the pass makes at most one write call per key.
C19_ActionSetsPartition ==
  \A r \in Runs :
    LET S == Ids(readData[r].source)
        T == Ids(readData[r].target)
    IN (pc[r] = "done" /\ passPolicy[r].create = "do" /\ passPolicy[r].delete = "do"
          /\ UniqueKeys(readData[r].source) /\ UniqueKeys(readData[r].target)
          /\ NoOverlap(r)) =>
         /\ CreateKeys(r) \cap MatchedKeys(r) = {}
         /\ CreateKeys(r) \cap DeleteKeys(r) = {}
         /\ MatchedKeys(r) \cap DeleteKeys(r) = {}
         /\ CreateKeys(r) \cup MatchedKeys(r) \cup DeleteKeys(r) = S \cup T
         /\ CreateKeys(r) = S \ T
         /\ MatchedKeys(r) = S \cap T
         /\ DeleteKeys(r) = T \ S
         /\ \A i, j \in CallsOf(r) : calls[i].id = calls[j].id => i = j

\* run r is in progress together with another run, and no run has returned
\* or rejected yet: the keyed collections hold nothing of a finished run
OverlapOnly(r) ==
  /\ pc[r] = "reading"
  /\ \E q \in Runs \ {r} : pc[q] = "reading"
  /\ \A q \in Runs : pc[q] \in {"idle", "reading"}
\* the step in which the then-callback of run r's read of side s runs putTo
BuildStep(r, s) == readSt[r][s] = "pending" /\ ReadResolved(r, s)'

\* C20: overlapping runs do not interfere. While two runs are in progress on
\* the instance and none has finished: a run's build step fails with the
\* duplicate-key error only if the array it read holds a key twice, and
\* leaves in the keyed collection the records of that array only; and when
\* a run reaches its loops each keyed collection holds exactly the records
\* its own read resolved with.
C20_OverlapIsolated ==
  [][\A r \in Runs :
       OverlapOnly(r) =>
         /\ \A s \in Sides :
              BuildStep(r, s) =>
                /\ readErr'[r][s].kind = "DuplicateKey" => ~UniqueKeys(readData'[r][s])
                /\ readSt'[r][s] = "fulfilled" =>
                     MapKeys(Collection(s))' = Ids(readData'[r][s])
         /\ RunActStep(r) =>
              \A s \in Sides : MapKeys(Collection(s)) = Ids(readData[r][s])
    ]_vars

\* C21: a failed pass is quiet. Once run r has rejected, no step emits an
\* event of run r, and no then-callback of run r's reads inserts a record
\* into a keyed collection.
C21_QuietAfterFailure ==
  [][\A r \in Runs :
       pc[r] = "failed" =>
         /\ \A i \in 1..Len(events') : i > Len(events) => events'[i].run # r
         /\ \A s \in Sides : BuildStep(r, s) => Collection(s)' = Collection(s)
    ]_vars

====
